---- MODULE Spec2Model ----
(***************************************************************************)
(* A model of viconProbe's data module (src/viconProbe/data.py): the       *)
(* ViconData / ViconData_interp constructors working over a loaded grid    *)
(* (gait_retrieve, then one batch_retrieve per requested batch), and the   *)
(* series post-processing ViconData_interp.data_process.                   *)
(*                                                                         *)
(* Cells.  A cell of the pandas frame is a record [k, n, d, s]:            *)
(*   k = "num" : the finite number n/d (d > 0, lowest terms);              *)
(*   k = "nan" : float NaN, which is also what an empty csv cell loads as; *)
(*   k = "inf" : float +infinity;                                          *)
(*   k = "str" : a text cell that is not numeric text; s is its content,   *)
(*               a sequence of chunks in which ":" is the delimiter chunk. *)
(* Numbers are exact rationals: binary rounding of floats is not modelled. *)
(* Row and column indexes are 0-based as in the code; At(df, r, c) reads   *)
(* df.loc[r, c].                                                           *)
(***************************************************************************)
EXTENDS Integers, Sequences, FiniteSets, TLC

VARIABLES
    df,            \* self.df: the loaded grid, a sequence of rows of max_col cells
    batches,       \* the constructor's batches argument
    cls,           \* "ViconData" or "ViconData_interp": which data_process is bound
    point_num,     \* self.point_num (ViconData_interp)
    threshold_num, \* self.threshold_num (ViconData_interp)
    pc,            \* position of the constructor / of the data_process call
    bi,            \* index (1-based) of the next batch of `batches` to retrieve
    timestamps,    \* self.timestamps
    attrs,         \* self.attrs: batch name -> result of batch_retrieve
    raised,        \* the exception that escaped, if any
    printed,       \* what has been print()ed, in order
    data,          \* argument of a direct data_process call
    processed,     \* its outcome
    subjects,      \* export_gait_attrs: the mapping returned by load
    ex,            \* its position: indexes of the subject, param and condition
    sheet,         \* the condition blocks of the worksheet being filled
    workbook,      \* the rendered worksheets of the current subject's workbook
    saved          \* the workbooks saved so far, in order

vars == <<df, batches, cls, point_num, threshold_num, pc, bi, timestamps,
          attrs, raised, printed, data, processed, subjects, ex, sheet, workbook, saved>>

\* the variables of export_gait_attrs
exportVars == <<subjects, ex, sheet, workbook, saved>>

\* no export is running
NoExport ==
    /\ subjects = <<>>
    /\ ex = [s |-> 1, p |-> 1, c |-> 1]
    /\ sheet = <<>>
    /\ workbook = <<>>
    /\ saved = <<>>

-----------------------------------------------------------------------------
(* Bounds of the model *)

\* number of data rows of a batch section of the grid
NumDataRows == 3
\* largest number of "Foot Strike" markers in a grid
MaxMarkers == 4
\* longest series handed to data_process directly
MaxLen == 4
\* largest point_num
MaxPointNum == 3
\* largest threshold_num
MaxThreshold == 3

-----------------------------------------------------------------------------
(* Cells and exact arithmetic *)

Num(a, b) == [k |-> "num", n |-> a, d |-> b, s |-> <<>>]
Int2Cell(a) == Num(a, 1)
NaN == [k |-> "nan", n |-> 0, d |-> 1, s |-> <<>>]
Inf == [k |-> "inf", n |-> 0, d |-> 1, s |-> <<>>]
Str(chunks) == [k |-> "str", n |-> 0, d |-> 1, s |-> chunks]

IsStr(c) == c.k = "str"
IsNum(c) == c.k = "num"
IsNaN(c) == c.k = "nan"
IsInf(c) == c.k = "inf"

Abs(x) == IF x < 0 THEN -x ELSE x

RECURSIVE Gcd(_, _)
Gcd(a, b) == IF b = 0 THEN a ELSE Gcd(b, a % b)

\* the number a/b (b # 0) as a cell in lowest terms with positive denominator
Rat(a, b) ==
    LET g == Gcd(Abs(a), Abs(b))
        sgn == IF b < 0 THEN -1 ELSE 1
    IN Num(sgn * (a \div g), sgn * (b \div g))

RatAdd(x, y) == Rat(x.n * y.d + y.n * x.d, x.d * y.d)
RatSub(x, y) == Rat(x.n * y.d - y.n * x.d, x.d * y.d)
RatMul(x, y) == Rat(x.n * y.n, x.d * y.d)

\* F applied to the value of e, e being evaluated once
Let(e, F(_)) == CHOOSE r \in {F(x) : x \in {e}} : TRUE

\* integer part of a/b (b > 0), rounding toward zero as Python's int() does
Trunc(a, b) == IF a >= 0 THEN a \div b ELSE -((-a) \div b)

-----------------------------------------------------------------------------
(* Python values and the frame *)

\* an operation's outcome: exc = "" and a value, or the exception it raises
Ok(v) == [exc |-> "", val |-> v]
Raise(e) == [exc |-> e, val |-> NaN]

\* float(c): numbers, NaN and inf convert, other text raises ValueError
PyFloat(c) == IF IsStr(c) THEN Raise("ValueError") ELSE Ok(c)

\* int(c) of a cell holding a whole number; NaN, inf and other text raise
PyInt(c) ==
    IF IsNum(c) /\ c.d = 1 THEN [exc |-> "", val |-> c.n]
    ELSE IF IsInf(c) THEN [exc |-> "OverflowError", val |-> 0]
    ELSE [exc |-> "ValueError", val |-> 0]

NumRows(grid) == Len(grid)
NumCols(grid) == IF Len(grid) = 0 THEN 0 ELSE Len(grid[1])
InGrid(grid, r, c) == r \in 0..(NumRows(grid) - 1) /\ c \in 0..(NumCols(grid) - 1)
\* df.loc[r, c] for a cell of the grid
At(grid, r, c) == grid[r + 1][c + 1]

\* np.where(df == symbol): the <<row, column>> of every cell equal to the
\* text `symbol`, in row-major order
df_match_indexes(grid, symbol) ==
    LET C == NumCols(grid)
        all == [i \in 1..(NumRows(grid) * C) |-> <<(i - 1) \div C, (i - 1) % C>>]
        hit(p) == LET c == At(grid, p[1], p[2]) IN IsStr(c) /\ c.s = symbol
    IN SelectSeq(all, hit)

\* indexes[0][0], indexes[1][0]: IndexError when nothing matches
df_first_match_index(grid, symbol) ==
    LET indexes == df_match_indexes(grid, symbol)
    IN IF Len(indexes) = 0 THEN [exc |-> "IndexError", val |-> <<0, 0>>]
       ELSE [exc |-> "", val |-> indexes[1]]

df_first_match_row(grid, symbol) ==
    LET index == df_first_match_index(grid, symbol)
    IN [exc |-> index.exc, val |-> index.val[1]]

FootStrike == <<"Foot Strike">>

-----------------------------------------------------------------------------
(* ViconData.gait_retrieve *)

\* the column the end time of the pair starting at marker n is read from
EndTimeCol(events, n) == events[n + 1][2] + 1

\* the loop body for n, n + 2, ...: the outcome is the exception raised (or
\* "") and self.timestamps as the loop leaves it
RECURSIVE GaitLoop(_, _, _, _)
GaitLoop(grid, events, n, acc0) ==
    Let(acc0, LAMBDA acc :
      IF n >= Len(events) THEN [exc |-> "", ts |-> acc]
      ELSE
        LET r0 == events[n + 1][1]
            c0 == events[n + 1][2] + 1
        IN IF ~InGrid(grid, r0, c0) THEN [exc |-> "KeyError", ts |-> acc]
           ELSE IF PyFloat(At(grid, r0, c0)).exc # "" THEN [exc |-> "ValueError", ts |-> acc]
           ELSE IF n + 1 >= Len(events) THEN [exc |-> "IndexError", ts |-> acc]
           ELSE
             LET r1 == events[n + 2][1]
                 c1 == EndTimeCol(events, n)
             IN IF ~InGrid(grid, r1, c1) THEN [exc |-> "KeyError", ts |-> acc]
                ELSE IF PyFloat(At(grid, r1, c1)).exc # "" THEN [exc |-> "ValueError", ts |-> acc]
                ELSE GaitLoop(grid, events, n + 2,
                              Append(acc, <<At(grid, r0, c0), At(grid, r1, c1)>>)))

gait_retrieve(grid) ==
    Let(df_match_indexes(grid, FootStrike), LAMBDA events_indexes :
      GaitLoop(grid, events_indexes, 0, <<>>))

-----------------------------------------------------------------------------
(* data_process *)

path == "subjects/name/condition.csv"

Say(text) == [text |-> text, file |-> ""]
PrintData == Say("print(data)")
InvalidTime == Say("Invalid time value")
Warning == [text |-> "Warning: unexpected error happens when parsing", file |-> path]

\* ViconData.data_process: the data unchanged
data_process_base(series) == [exc |-> "", val |-> series, out |-> <<>>]

\* a filter that removes nothing
KeepAll(series) == series

\* [d for d in data if math.isnan(float(d)) == False]
RemoveNaN(series) == SelectSeq(series, LAMBDA c : ~IsNaN(c))

\* a test that also passes a series of exactly threshold_num values through
TooShortInclusive(len, T) == len <= T \/ len < 2

\* len(data_remove_nan) < self.threshold_num or len(data_remove_nan) < 2
TooShort(len, T) == len < T \/ len < 2

\* positions that leave the end point out, as np.linspace(.., endpoint=False)
LinspaceNoEndpoint(L, P, j) == <<j * (L - 1), P>>

\* the j-th of the P positions of np.linspace(0, L - 1, P), as a fraction
\* <<numerator, denominator>>
Linspace(L, P, j) == IF P = 1 THEN <<0, 1>> ELSE <<j * (L - 1), P - 1>>

\* the 'slinear' interpolant of the samples y at positions 0..Len(y)-1,
\* evaluated at x = xn/xd in [0, Len(y) - 1].  With an infinite sample next to
\* x the float arithmetic decides: mode "nan" yields NaN; mode "inf" yields
\* the sample itself where x falls on it and inf in between.
InterpAt(y, xn, xd, mode) ==
    LET L == Len(y)
        fl == xn \div xd
        k == IF fl >= L - 1 THEN L - 2 ELSE fl
        y0 == y[k + 1]
        y1 == y[k + 2]
        fn == xn - k * xd      \* x - k = fn/xd, in [0, 1]
    IN IF IsNum(y0) /\ IsNum(y1)
         THEN RatAdd(y0, RatMul(RatSub(y1, y0), Rat(fn, xd)))
       ELSE IF mode = "nan" THEN NaN
       ELSE IF fn = 0 THEN y0
       ELSE IF fn = xd THEN y1
       ELSE Inf

\* func_interp(np.linspace(0, len - 1, point_num))
Resample(y, P, mode) ==
    [j \in 1..P |-> LET x == Linspace(Len(y), P, j - 1)
                    IN InterpAt(y, x[1], x[2], mode)]

\* ViconData_interp.data_process.  When float(d) raises for some d, the
\* handler prints the data and data_remove_nan is left unbound, so that the
\* test that follows raises UnboundLocalError.
data_process_interp(series, P, T, mode) ==
    IF \E i \in 1..Len(series) : PyFloat(series[i]).exc # ""
      THEN [exc |-> "UnboundLocalError", val |-> <<>>, out |-> <<PrintData>>]
    ELSE Let(RemoveNaN(series), LAMBDA data_remove_nan :
           IF TooShort(Len(data_remove_nan), T)
             THEN [exc |-> "", val |-> data_remove_nan, out |-> <<>>]
           ELSE [exc |-> "", val |-> Resample(data_remove_nan, P, mode), out |-> <<>>])

\* self.data_process, as the class of the object binds it
data_process(class, series, P, T, mode) ==
    IF class = "ViconData_interp" THEN data_process_interp(series, P, T, mode)
    ELSE data_process_base(series)

-----------------------------------------------------------------------------
(* ViconData.batch_retrieve *)

\* Python dicts as functions; d[k] = v
EmptyDict == <<>>
Put(d, key, v) == [x \in (DOMAIN d) \cup {key} |-> IF x = key THEN v ELSE d[x]]

\* what batch_retrieve returns: a list of gaits, or None
Absent == [some |-> FALSE, gaits |-> <<>>]
Some(g) == [some |-> TRUE, gaits |-> g]

\* text.split(':'), text a sequence of chunks
RECURSIVE SplitFrom(_, _, _, _)
SplitFrom(chunks, i, cur, acc) ==
    IF i > Len(chunks) THEN Append(acc, cur)
    ELSE IF chunks[i] = ":" THEN SplitFrom(chunks, i + 1, <<>>, Append(acc, cur))
    ELSE SplitFrom(chunks, i + 1, Append(cur, chunks[i]), acc)

Split(chunks) == SplitFrom(chunks, 1, <<>>, <<>>)

\* a split that takes the segment before the first ':'
ParamNamePrefix(chunks) ==
    LET parts == Split(chunks)
    IN IF Len(parts) < 2 THEN [exc |-> "IndexError", val |-> <<>>]
       ELSE [exc |-> "", val |-> parts[1]]

\* param_list[n].split(':')[1]
ParamName(chunks) ==
    LET parts == Split(chunks)
    IN IF Len(parts) < 2 THEN [exc |-> "IndexError", val |-> <<>>]
       ELSE [exc |-> "", val |-> parts[2]]

\* time2row of batch_retrieve: the row of a time, or None (none = TRUE) with
\* "Invalid time value" printed when it precedes row_start
time2row(time, row_start, frame_start, output_rate) ==
    LET frame == RatMul(time, Int2Cell(output_rate))
        row == Trunc(frame.n + (row_start - frame_start) * frame.d, frame.d)
    IN IF IsNaN(time) \/ (IsInf(time) /\ output_rate = 0)
         THEN [exc |-> "ValueError", none |-> TRUE, row |-> 0, out |-> <<>>]
       ELSE IF IsInf(time)
         THEN [exc |-> "OverflowError", none |-> TRUE, row |-> 0, out |-> <<>>]
       ELSE IF row < row_start
         THEN [exc |-> "", none |-> TRUE, row |-> 0, out |-> <<InvalidTime>>]
       ELSE [exc |-> "", none |-> FALSE, row |-> row, out |-> <<>>]

\* a slice that leaves the end row out, as a positional slice does
LocSliceHalfOpen(grid, a, b, col) ==
    LET last == NumRows(grid) - 1
        lo == IF a.none THEN 0 ELSE a.row
        hi == IF b.none \/ b.row > last THEN last ELSE b.row - 1
    IN [i \in 1..(hi - lo + 1) |-> At(grid, lo + i - 1, col)]

\* self.df.loc[a : b, col].tolist(): the label slice includes both ends, and
\* an end that is None is open
LocSlice(grid, a, b, col) ==
    LET last == NumRows(grid) - 1
        lo == IF a.none THEN 0 ELSE a.row
        hi == IF b.none \/ b.row > last THEN last ELSE b.row
    IN [i \in 1..(hi - lo + 1) |-> At(grid, lo + i - 1, col)]

\* gait_extract of batch_retrieve
gait_extract(grid, start, end, col, row_start, frame_start, output_rate, class, P, T, mode) ==
    LET a == time2row(start, row_start, frame_start, output_rate)
    IN IF a.exc # "" THEN [exc |-> a.exc, val |-> <<>>, out |-> a.out]
       ELSE
         LET b == time2row(end, row_start, frame_start, output_rate)
         IN IF b.exc # "" THEN [exc |-> b.exc, val |-> <<>>, out |-> a.out \o b.out]
            ELSE
              Let(LocSlice(grid, a, b, col), LAMBDA series :
                Let(data_process(class, series, P, T, mode), LAMBDA r :
                  [exc |-> r.exc, val |-> r.val, out |-> a.out \o b.out \o r.out]))

\* list(map(float, event_data))
MapFloat(series) ==
    IF \E i \in 1..Len(series) : PyFloat(series[i]).exc # ""
      THEN [exc |-> "ValueError", val |-> <<>>]
    ELSE [exc |-> "", val |-> series]

\* a non-empty param_names cell: every gait gets gait[param_name] = {}
OpenParam(gaits, param_name) ==
    [m \in 1..Len(gaits) |-> Put(gaits[m], param_name, EmptyDict)]

\* a store that always writes to the first gait
StoreSeriesFirst(gaits, m, param_name, sub_param_name, event_data) ==
    [gaits EXCEPT ![1] = Put(gaits[1], param_name,
                             Put(gaits[1][param_name], sub_param_name, event_data))]

\* gaits[m][param_name][sub_param_name] = event_data
StoreSeries(gaits, m, param_name, sub_param_name, event_data) ==
    [gaits EXCEPT ![m] = Put(gaits[m], param_name,
                             Put(gaits[m][param_name], sub_param_name, event_data))]

\* the loop over the gaits for column n, from gait m on.  st is the state of
\* the try block: exc (the exception raised in it, or ""), gaits, whether
\* param_name is bound and to what, and what was printed.
RECURSIVE GaitsLoop(_, _, _, _, _, _, _, _, _, _, _, _)
GaitsLoop(grid, ts, st0, n, m, sub_param_name, row_start, frame_start, output_rate, class, P, T) ==
    Let(st0, LAMBDA st :
      IF m > Len(st.gaits) THEN st
      ELSE
        Let(gait_extract(grid, ts[m][1], ts[m][2], n, row_start, frame_start,
                         output_rate, class, P, T, st.mode), LAMBDA e :
          LET f == MapFloat(e.val)
              printed1 == st.out \o e.out
          IN IF e.exc # "" THEN [st EXCEPT !.exc = e.exc, !.out = printed1]
             ELSE IF f.exc # "" THEN [st EXCEPT !.exc = f.exc, !.out = printed1]
             ELSE IF ~st.bound THEN [st EXCEPT !.exc = "UnboundLocalError", !.out = printed1]
             ELSE GaitsLoop(grid, ts,
                            [st EXCEPT !.out = printed1,
                                       !.gaits = StoreSeries(st.gaits, m, st.pname,
                                                             sub_param_name, f.val)],
                            n, m + 1, sub_param_name, row_start, frame_start,
                            output_rate, class, P, T)))

\* a non-empty param_names cell p at the head of column n
ParamStep(st, p) ==
    LET name == ParamName(p.s)
    IN IF ~IsStr(p) THEN st
       ELSE IF name.exc # "" THEN [st EXCEPT !.exc = name.exc]
       ELSE [st EXCEPT !.pname = name.val, !.bound = TRUE,
                       !.gaits = OpenParam(st.gaits, name.val)]

\* the loop over the columns n = 2 .. len(param_list) - 1, from column n on
RECURSIVE ColumnsLoop(_, _, _, _, _, _, _, _, _, _)
ColumnsLoop(grid, ts, st0, n, row_start, frame_start, output_rate, class, P, T) ==
    Let(st0, LAMBDA st :
      IF n >= NumCols(grid) \/ st.exc # "" THEN st
      ELSE
        Let(ParamStep(st, At(grid, row_start - 3, n)), LAMBDA st1 :
          LET s == At(grid, row_start - 2, n)
          IN ColumnsLoop(grid, ts,
                         IF st1.exc # "" \/ ~IsStr(s) THEN st1
                         ELSE GaitsLoop(grid, ts, st1, n, 1, s.s, row_start, frame_start,
                                        output_rate, class, P, T),
                         n + 1, row_start, frame_start, output_rate, class, P, T)))

\* an except clause that returns the gaits filled so far
OnErrorPartial(st) == [exc |-> "", res |-> Some(st.gaits), out |-> Append(st.out, Warning)]

\* the except clause of batch_retrieve: the warning, and None is returned
OnError(st) == [exc |-> "", res |-> Absent, out |-> Append(st.out, Warning)]

\* batch_retrieve(batch).  exc is the exception that escapes it (or ""), res
\* what it returns, out what it prints.
batch_retrieve(grid, ts, batch, class, P, T, mode) ==
    Let(df_first_match_row(grid, batch), LAMBDA first :
      LET row_start == first.val + 5
      IN IF first.exc # "" THEN [exc |-> first.exc, res |-> Absent, out |-> <<>>]
         ELSE IF ~InGrid(grid, row_start, 0)
           THEN [exc |-> "KeyError", res |-> Absent, out |-> <<>>]
         ELSE
           LET frame_start == PyInt(At(grid, row_start, 0))
               output_rate == PyInt(At(grid, row_start - 4, 0))
               st0 == [exc |-> "", gaits |-> [m \in 1..Len(ts) |-> EmptyDict],
                       pname |-> <<>>, bound |-> FALSE, out |-> <<>>, mode |-> mode]
           IN IF frame_start.exc # ""
                THEN [exc |-> frame_start.exc, res |-> Absent, out |-> <<>>]
              ELSE IF output_rate.exc # ""
                THEN [exc |-> output_rate.exc, res |-> Absent, out |-> <<>>]
              ELSE
                Let(ColumnsLoop(grid, ts, st0, 2, row_start, frame_start.val,
                                output_rate.val, class, P, T), LAMBDA st :
                  IF st.exc # "" THEN OnError(st)
                  ELSE [exc |-> "", res |-> Some(st.gaits), out |-> st.out]))

-----------------------------------------------------------------------------
(* The grids the constructor is run over.                                  *)
(*                                                                         *)
(* A grid is laid out as a Vicon export is: the event rows, each with a    *)
(* "Foot Strike" marker and its time in the next column, then one section  *)
(* per batch: the batch name, the output rate, the parameter names, the    *)
(* sub-parameter names, the units, and the data rows (frame, sub frame,    *)
(* one column per sub-parameter).                                          *)

\* the max_col argument of the constructor: columns 0 and 1 are the frame
\* columns, columns 2 .. max_col - 1 hold the parameters
max_col == 4

Joints == <<"Joints">>
ModelOutputs == <<"Model Outputs">>
Missing == <<"Trajectories">>
Bad == Str(<<"bad">>)

\* the row of marker i: the marker in column mc, its time t right of it
EventRow(mc, t) ==
    [c \in 1..max_col |->
        IF c - 1 = mc THEN Str(FootStrike)
        ELSE IF c - 1 = mc + 1 THEN t
        ELSE IF c - 1 > mc + 1 THEN Int2Cell(7)
        ELSE NaN]

RowOf(c0, c1, rest) ==
    [c \in 1..max_col |-> IF c = 1 THEN c0 ELSE IF c = 2 THEN c1 ELSE rest[c - 2]]

Blank == [c \in 1..(max_col - 2) |-> NaN]

\* the section of a batch: params and subs are the two header rows over the
\* columns 2 .. max_col - 1, cell[i][c] the data cell of row i and column c,
\* rows the number of data rows
Section(name, rate, first, params, subs, cell, rows) ==
    << RowOf(Str(name), NaN, Blank),
       RowOf(Int2Cell(rate), NaN, Blank),
       RowOf(NaN, NaN, params),
       RowOf(Str(<<"Frame">>), Str(<<"Sub Frame">>), subs),
       RowOf(NaN, NaN, [c \in 1..(max_col - 2) |-> Str(<<"deg">>)]) >>
    \o [i \in 1..rows |->
          RowOf(Int2Cell(first + i - 1), Int2Cell(0),
                [c \in 1..(max_col - 2) |-> cell[i][c + 1]])]

\* the data cell of kind q in data row i, column c of section number sec
DataCell(q, sec, i, c) ==
    CASE q = "nan" -> NaN
      [] q = "inf" -> Inf
      [] q = "bad" -> Bad
      [] OTHER -> Int2Cell(100 * sec + 10 * c + i)

\* the grid of the knobs K: the markers' columns mk and times tm, the header
\* hdr = <<params, subs>> and the kinds dat of column 2 of "Joints", the
\* output rate and first frame number of the sections, the number mrows of
\* data rows of "Model Outputs", and the set `present` of the sections the
\* file holds
BuildGrid(K) ==
    LET events == [i \in 1..Len(K.mk) |-> EventRow(K.mk[i], K.tm[i])]
        jcell == [i \in 1..NumDataRows |-> [c \in 2..(max_col - 1) |->
                    DataCell(IF c = 2 THEN K.dat[i] ELSE "ok", 1, i, c)]]
        mcell == [i \in 1..K.mrows |-> [c \in 2..(max_col - 1) |->
                    DataCell("ok", 2, i, c)]]
        mparams == [c \in 1..(max_col - 2) |-> IF c = 1 THEN Str(<<"S", ":", "K">>) ELSE NaN]
        msubs == [c \in 1..(max_col - 2) |-> IF c = 1 THEN Str(<<"X">>) ELSE Str(<<"Y">>)]
    IN events
       \o (IF Joints \in K.present THEN Section(Joints, K.rate, K.first, K.hdr[1], K.hdr[2], jcell, NumDataRows)
             ELSE <<>>)
       \o (IF ModelOutputs \in K.present
             THEN Section(ModelOutputs, K.rate, K.first, mparams, msubs, mcell, K.mrows)
             ELSE <<>>)

\* sequences over S of length 0 .. n
SeqsUpTo(S, n) == UNION {[1..k -> S] : k \in 0..n}

Half(a) == Rat(a, 2)

\* the time of marker i of a well-formed file: 1/2, 1, 1, 3/2, 1/2, ...
DefTime(i) == Half(CASE i % 4 = 1 -> 1 [] i % 4 = 2 -> 2 [] i % 4 = 3 -> 2 [] OTHER -> 3)

\* a well-formed file: four markers in column 2 giving the gaits (1/2, 1)
\* and (1, 3/2), i.e. the data rows 0..1 and 1..2 at rate 2 from frame 1
K0 == [mk |-> <<2, 2, 2, 2>>,
       tm |-> [i \in 1..4 |-> DefTime(i)],
       hdr |-> << [c \in 1..(max_col - 2) |-> IF c = 1 THEN Str(<<"D", ":", "A">>) ELSE NaN],
                  [c \in 1..(max_col - 2) |-> IF c = 1 THEN Str(<<"X">>) ELSE Str(<<"Y">>)] >>,
       dat |-> [i \in 1..NumDataRows |-> "ok"],
       rate |-> 2,
       first |-> 1,
       mrows |-> NumDataRows,
       present |-> {Joints, ModelOutputs},
       batches |-> <<Joints, ModelOutputs>>,
       cls |-> <<"ViconData", 0, 0>>]

\* the classes a file is loaded with: <<class, point_num, threshold_num>>
Classes ==
    {<<"ViconData", 0, 0>>}
    \cup {<<"ViconData_interp", P, T>> : P \in {2, MaxPointNum}, T \in {2, MaxThreshold}}

\* files differing in the markers: how many, and in which column each is
MarkerFiles ==
    {[K0 EXCEPT !.mk = mk, !.tm = [i \in 1..Len(mk) |-> DefTime(i)]] :
        mk \in SeqsUpTo({1, 2}, MaxMarkers)}

\* files differing in the times of the first two markers, with one gait or
\* two, and in the output rate
TimeCells == {Int2Cell(0), Half(1), Rat(3, 4), Int2Cell(1), NaN}
TimeFiles ==
    {[K0 EXCEPT !.mk = [i \in 1..n |-> 2],
                !.tm = [i \in 1..n |-> IF i = 1 THEN t1 ELSE IF i = 2 THEN t2 ELSE DefTime(i)],
                !.rate = r, !.cls = c] :
        n \in {2, 4}, t1 \in TimeCells, t2 \in TimeCells, r \in {1, 2},
        c \in {<<"ViconData", 0, 0>>, <<"ViconData_interp", 2, 2>>}}

\* files differing in the two header rows of "Joints"
ParamCells == {NaN, Str(<<"D", ":", "A">>), Str(<<"D", ":", "B">>), Str(<<"A">>),
               Str(<<"D", ":", "A", ":", "B">>)}
SubCells == {NaN, Str(<<"X">>), Str(<<"Y">>)}
HeaderFiles ==
    {[K0 EXCEPT !.hdr = <<ps, ss>>] :
        ps \in [1..(max_col - 2) -> ParamCells], ss \in [1..(max_col - 2) -> SubCells]}

\* files differing in the cells of column 2 of "Joints", in the class they
\* are loaded with and in the order of the batches
CellKinds == {"ok", "nan", "inf", "bad"}
DataFiles ==
    {[K0 EXCEPT !.dat = dat, !.cls = c, !.batches = bs] :
        dat \in [1..NumDataRows -> CellKinds], c \in Classes,
        bs \in {<<Joints, ModelOutputs>>, <<ModelOutputs, Joints>>}}

\* files and batch lists differing in which batches are there and asked for
BatchFiles ==
    {[K0 EXCEPT !.present = pr, !.batches = bs] :
        pr \in SUBSET {Joints, ModelOutputs},
        bs \in SeqsUpTo({Joints, ModelOutputs, Missing}, 2)}

\* long recordings: one gait from time 0 to time 1 (or reversed) at rate 100
\* from frame 0, "Model Outputs" after the markers and "Joints", with more
\* or fewer data rows than the gait spans
LongFiles ==
    {[K0 EXCEPT !.mk = <<2, 2>>, !.tm = tm, !.rate = 100, !.first = 0, !.mrows = n,
                !.batches = <<ModelOutputs>>] :
        tm \in {<<Int2Cell(0), Int2Cell(1)>>, <<Int2Cell(1), Int2Cell(0)>>},
        n \in {99, 101, 103}}

-----------------------------------------------------------------------------
(* The constructor: ViconData.__init__ after the frame is read *)

NoExc == [exc |-> "", in |-> ""]

\* the file K is read and the constructor is about to call gait_retrieve
InitFile(K) ==
    /\ df = BuildGrid(K)
    /\ batches = K.batches
    /\ cls = K.cls[1]
    /\ point_num = K.cls[2]
    /\ threshold_num = K.cls[3]
    /\ pc = "gait_retrieve"
    /\ bi = 1
    /\ timestamps = <<>>
    /\ attrs = EmptyDict
    /\ raised = NoExc
    /\ printed = <<>>
    /\ data = <<>>
    /\ processed = <<>>
    /\ NoExport

Init ==
    \/ \E K \in MarkerFiles : InitFile(K)
    \/ \E K \in TimeFiles : InitFile(K)
    \/ \E K \in HeaderFiles : InitFile(K)
    \/ \E K \in DataFiles : InitFile(K)
    \/ \E K \in BatchFiles : InitFile(K)
    \/ \E K \in LongFiles : InitFile(K)

\* what the resampler's float arithmetic may do with an infinite operand
Modes == {"nan", "inf"}

\* self.gait_retrieve(); self.attrs = {}
GaitRetrieve ==
    /\ pc = "gait_retrieve"
    /\ LET r == gait_retrieve(df)
       IN /\ timestamps' = r.ts
          /\ raised' = IF r.exc # "" THEN [exc |-> r.exc, in |-> "gait_retrieve"] ELSE raised
          /\ pc' = IF r.exc # "" THEN "raised"
                   ELSE IF Len(batches) = 0 THEN "done" ELSE "batch_retrieve"
    /\ UNCHANGED <<df, batches, cls, point_num, threshold_num, bi, attrs, printed,
                   data, processed, exportVars>>

\* one turn of: for batch in batches: self.attrs[batch] = self.batch_retrieve(batch)
BatchRetrieve ==
    /\ pc = "batch_retrieve"
    /\ \E mode \in Modes :
         LET r == batch_retrieve(df, timestamps, batches[bi], cls, point_num,
                                 threshold_num, mode)
         IN /\ printed' = printed \o r.out
            /\ raised' = IF r.exc # "" THEN [exc |-> r.exc, in |-> "batch_retrieve"] ELSE raised
            /\ attrs' = IF r.exc # "" THEN attrs ELSE Put(attrs, batches[bi], r.res)
            /\ bi' = IF r.exc # "" THEN bi ELSE bi + 1
            /\ pc' = IF r.exc # "" THEN "raised"
                     ELSE IF bi = Len(batches) THEN "done" ELSE "batch_retrieve"
    /\ UNCHANGED <<df, batches, cls, point_num, threshold_num, timestamps, data, processed,
                   exportVars>>

Next == GaitRetrieve \/ BatchRetrieve

Spec == Init /\ [][Next]_vars

-----------------------------------------------------------------------------
(* Direct calls of data_process on a series *)

SeriesCells == {Int2Cell(0), Int2Cell(2), NaN, Inf, Bad}

InitProcess ==
    /\ df = <<>>
    /\ batches = <<>>
    /\ \E c \in {<<"ViconData", 0, 0>>}
             \cup {<<"ViconData_interp", P, T>> : P \in 0..MaxPointNum, T \in 0..MaxThreshold} :
         /\ cls = c[1]
         /\ point_num = c[2]
         /\ threshold_num = c[3]
    /\ pc = "data_process"
    /\ bi = 1
    /\ timestamps = <<>>
    /\ attrs = EmptyDict
    /\ raised = NoExc
    /\ printed = <<>>
    /\ data \in SeqsUpTo(SeriesCells, MaxLen)
    /\ processed = <<>>
    /\ NoExport

\* self.data_process(data)
DataProcess ==
    /\ pc = "data_process"
    /\ \E mode \in Modes :
         LET r == data_process(cls, data, point_num, threshold_num, mode)
         IN /\ processed' = r.val
            /\ printed' = printed \o r.out
            /\ raised' = IF r.exc # "" THEN [exc |-> r.exc, in |-> "data_process"] ELSE raised
            /\ pc' = IF r.exc # "" THEN "raised" ELSE "returned"
    /\ UNCHANGED <<df, batches, cls, point_num, threshold_num, bi, timestamps, attrs, data,
                   exportVars>>

NextProcess == DataProcess

SpecProcess == InitProcess /\ [][NextProcess]_vars

-----------------------------------------------------------------------------
(* export_gait_attrs over the mapping returned by load *)

\* the batch and the params the export is asked for
ExportBatch == Joints
ExportParams == << <<"A">>, <<"B">> >>

\* files loaded without an exception: well-formed, with a cell of "Joints"
\* that is not a number, with another parameter name, and without markers
ResultFiles ==
    {K0,
     [K0 EXCEPT !.dat = [i \in 1..NumDataRows |-> IF i = 1 THEN "bad" ELSE "ok"]],
     [K0 EXCEPT !.hdr = << [c \in 1..(max_col - 2) |->
                             IF c = 1 THEN Str(<<"D", ":", "B">>) ELSE NaN], K0.hdr[2] >>],
     [K0 EXCEPT !.mk = <<>>, !.tm = <<>>]}

\* subjects[name][condition].attrs[batch] of the object constructed over file K
ResultOf(K) ==
    Let(BuildGrid(K), LAMBDA grid :
      Let(gait_retrieve(grid), LAMBDA g :
        batch_retrieve(grid, g.ts, ExportBatch, K.cls[1], K.cls[2], K.cls[3], "nan").res))

Results == {ResultOf(K) : K \in ResultFiles}

\* the conditions of a subject in file order, each with the result of its file
ConditionLists ==
    {<<>>}
    \cup {<<[condition |-> "c1", data |-> r]>> : r \in Results}
    \cup {<<[condition |-> "c1", data |-> r1], [condition |-> "c2", data |-> r2]>> :
            r1 \in Results, r2 \in Results}

\* the position the export takes up for a subject's list of conditions
Enter(conds) == IF Len(conds) = 0 THEN "render" ELSE "export_condition"

InitExport ==
    /\ df = <<>>
    /\ batches = <<ExportBatch>>
    /\ cls = "ViconData"
    /\ point_num = 0
    /\ threshold_num = 0
    /\ bi = 1
    /\ timestamps = <<>>
    /\ attrs = EmptyDict
    /\ raised = NoExc
    /\ printed = <<>>
    /\ data = <<>>
    /\ processed = <<>>
    /\ \E l1 \in ConditionLists, l2 \in ConditionLists :
         subjects = <<[name |-> "s1", conds |-> l1], [name |-> "s2", conds |-> l2]>>
    /\ ex = [s |-> 1, p |-> 1, c |-> 1]
    /\ sheet = <<>>
    /\ workbook = <<>>
    /\ saved = <<>>
    /\ pc = Enter(subjects[1].conds)

NotFound(name, condition, param) ==
    [text |-> "Warning: not found", file |-> <<name, condition, param>>]

\* the gait blocks of a condition for a param: for each gait, the
\* sub-parameter blocks of the param, or none with a warning when the gait
\* has no such param
GaitBlocks(gaits, param) ==
    [g \in 1..Len(gaits) |->
        IF param \in DOMAIN gaits[g] THEN [found |-> TRUE, subs |-> gaits[g][param]]
        ELSE [found |-> FALSE, subs |-> EmptyDict]]

\* one turn of: for condition in subjects[name]
ExportCondition ==
    /\ pc = "export_condition"
    /\ LET subject == subjects[ex.s]
           cond == subject.conds[ex.c]
           param == ExportParams[ex.p]
       IN IF ~cond.data.some
            THEN \* len(data) of None
                 /\ raised' = [exc |-> "TypeError", in |-> "export_gait_attrs"]
                 /\ pc' = "raised"
                 /\ UNCHANGED <<printed, sheet, ex>>
            ELSE LET blocks == GaitBlocks(cond.data.gaits, param)
                     missing == SelectSeq(blocks, LAMBDA bl : ~bl.found)
                 IN /\ sheet' = Append(sheet, [condition |-> cond.condition, gaits |-> blocks])
                    /\ printed' = printed \o
                         [g \in 1..Len(missing) |->
                            NotFound(subject.name, cond.condition, param)]
                    /\ ex' = [ex EXCEPT !.c = ex.c + 1]
                    /\ pc' = IF ex.c = Len(subject.conds) THEN "render"
                             ELSE "export_condition"
                    /\ UNCHANGED raised
    /\ UNCHANGED <<df, batches, cls, point_num, threshold_num, bi, timestamps, attrs,
                   data, processed, subjects, workbook, saved>>

\* param_batch.render(0, 0), and on to the next param
RenderSheet ==
    /\ pc = "render"
    /\ workbook' = Append(workbook, [param |-> ExportParams[ex.p],
                                     name |-> subjects[ex.s].name, conds |-> sheet])
    /\ sheet' = <<>>
    /\ IF ex.p = Len(ExportParams)
         THEN pc' = "save" /\ UNCHANGED ex
         ELSE /\ ex' = [ex EXCEPT !.p = ex.p + 1, !.c = 1]
              /\ pc' = Enter(subjects[ex.s].conds)
    /\ UNCHANGED <<df, batches, cls, point_num, threshold_num, bi, timestamps, attrs,
                   raised, printed, data, processed, subjects, saved>>

\* workbook.save(save_file), and on to the next subject
SaveWorkbook ==
    /\ pc = "save"
    /\ saved' = Append(saved, [name |-> subjects[ex.s].name, batch |-> ExportBatch,
                               sheets |-> workbook])
    /\ workbook' = <<>>
    /\ IF ex.s = Len(subjects)
         THEN pc' = "done" /\ UNCHANGED ex
         ELSE /\ ex' = [s |-> ex.s + 1, p |-> 1, c |-> 1]
              /\ pc' = Enter(subjects[ex.s + 1].conds)
    /\ UNCHANGED <<df, batches, cls, point_num, threshold_num, bi, timestamps, attrs,
                   raised, printed, data, processed, subjects, sheet>>

NextExport == ExportCondition \/ RenderSheet \/ SaveWorkbook

SpecExport == InitExport /\ [][NextExport]_vars

-----------------------------------------------------------------------------
(* Statements about the constructor and about data_process *)

\* the "Foot Strike" markers of the file, in row-major order
Markers == df_match_indexes(df, FootStrike)

\* gait_retrieve has run and returned
GaitsRetrieved == pc # "gait_retrieve" /\ raised.in # "gait_retrieve"

\* the constructor has ended, by returning or by an exception
Ended == pc \in {"done", "raised"}

\* batch b has no cell in the file
NotInFile(b) == Len(df_match_indexes(df, b)) = 0

\* C1: when a requested batch name matches no cell of the grid, the
\* constructor does not raise, the result stored for that batch is absent,
\* and every other requested batch is still extracted and stored.
C1_MissingBatchIsAbsent ==
    (Ended /\ GaitsRetrieved /\ \E i \in 1..Len(batches) : NotInFile(batches[i]))
    => /\ raised = NoExc
       /\ \A i \in 1..Len(batches) :
            /\ batches[i] \in DOMAIN attrs
            /\ NotInFile(batches[i]) => ~attrs[batches[i]].some
            /\ ~NotInFile(batches[i]) => attrs[batches[i]].some

\* C2: for every grid with n "Foot Strike" cells, gait_retrieve returns
\* without raising and leaves floor(n / 2) gait events in timestamps.
C2_PairsOfMarkers ==
    pc # "gait_retrieve"
    => /\ raised.in # "gait_retrieve"
       /\ Len(timestamps) = Len(Markers) \div 2

\* the value right of marker number i (counted from 0)
TimeOfMarker(i) == At(df, Markers[i + 1][1], Markers[i + 1][2] + 1)

\* C3: the k-th gait event is (start, end), start the cell right of marker
\* 2k and end the cell right of marker 2k+1, each relative to its own
\* marker's column, whatever the columns of the markers.
C3_TimesRightOfOwnMarker ==
    GaitsRetrieved
    => \A k \in 0..(Len(timestamps) - 1) :
         timestamps[k + 1] = <<TimeOfMarker(2 * k), TimeOfMarker(2 * k + 1)>>

\* the layout of batch b, a batch of the file: its first data row, the frame
\* number there and the output rate
RowStart(b) == df_first_match_row(df, b).val + 5
FrameStart(b) == PyInt(At(df, RowStart(b), 0)).val
OutputRate(b) == PyInt(At(df, RowStart(b) - 4, 0)).val
SubParam(b, c) == At(df, RowStart(b) - 2, c)
Param(b, c) == At(df, RowStart(b) - 3, c)
StartRow(b, m) == time2row(timestamps[m][1], RowStart(b), FrameStart(b), OutputRate(b))
EndRow(b, m) == time2row(timestamps[m][2], RowStart(b), FrameStart(b), OutputRate(b))

\* the columns of batch b that are extracted: those with a sub-parameter name
Extracted(b) == {c \in 2..(NumCols(df) - 1) : IsStr(SubParam(b, c))}

\* some cell of the slice of gait m and column c of batch b is text that
\* float() rejects
BadSlice(b, m, c) ==
    /\ StartRow(b, m).exc = "" /\ EndRow(b, m).exc = ""
    /\ LET cells == LocSlice(df, StartRow(b, m), EndRow(b, m), c)
       IN \E i \in 1..Len(cells) : IsStr(cells[i])

HasBadSlice(b) ==
    /\ ~NotInFile(b)
    /\ \E c \in Extracted(b) : \E m \in 1..Len(timestamps) : BadSlice(b, m, c)

\* C4: when a cell of an extracted slice of a batch cannot be coerced to
\* float, batch_retrieve of that batch is all-or-nothing: no exception
\* escapes, the warning naming the file is printed last, the result stored for
\* the batch is absent, and timestamps and the results of the other batches
\* stay as they were.
C4_BadCellAbortsBatch ==
    [][ (pc = "batch_retrieve" /\ HasBadSlice(batches[bi]))
        => /\ raised' = NoExc
           /\ batches[bi] \in DOMAIN attrs'
           /\ attrs'[batches[bi]] = Absent
           /\ Len(printed') > Len(printed)
           /\ printed'[Len(printed')] = Warning
           /\ Warning.file = path
           /\ timestamps' = timestamps
           /\ \A b \in (DOMAIN attrs) \ {batches[bi]} :
                b \in DOMAIN attrs' /\ attrs'[b] = attrs[b] ]_vars

\* C4 witness: a constructor that returned with one batch aborted over a
\* bad cell and another batch extracted
C4_Witness ==
    /\ pc = "done"
    /\ Len(timestamps) >= 1
    /\ \E b \in DOMAIN attrs :
         /\ HasBadSlice(b)
         /\ ~attrs[b].some
         /\ \E b2 \in DOMAIN attrs : attrs[b2].some /\ Len(attrs[b2].gaits) >= 1

\* gait m of batch b has a start or end time whose row precedes row_start
InvalidGait(b, m) ==
    /\ StartRow(b, m).exc = "" /\ EndRow(b, m).exc = ""
    /\ StartRow(b, m).none \/ EndRow(b, m).none

\* C5: when time2row finds the row of a gait's start or end before
\* row_start, this is reported without raising, the series of that gait are
\* skipped or empty and the extraction of the batch goes on.
C5_InvalidTimeSkipsGait ==
    \A b \in DOMAIN attrs : \A m \in 1..Len(timestamps) :
      (~NotInFile(b) /\ InvalidGait(b, m))
      => /\ raised = NoExc
         /\ \E i \in 1..Len(printed) : printed[i] = InvalidTime
         /\ attrs[b].some
         /\ \A p \in DOMAIN attrs[b].gaits[m] : \A s \in DOMAIN attrs[b].gaits[m][p] :
              attrs[b].gaits[m][p][s] = <<>>


\* the columns 2..c of batch b whose param_names cell is not empty
Opened(b, c) == {o \in 2..c : IsStr(Param(b, o))}
\* the nearest of them, for a column that has one
OpenCol(b, c) == CHOOSE o \in Opened(b, c) : \A o2 \in Opened(b, c) : o2 <= o
\* P(c): the parameter that column c of batch b belongs to
ParamOf(b, c) == ParamName(Param(b, OpenCol(b, c)).s).val

\* the processed slice of column c of batch b for gait i
SeriesOf(b, i, c, mode) ==
    MapFloat(gait_extract(df, timestamps[i][1], timestamps[i][2], c, RowStart(b),
                          FrameStart(b), OutputRate(b), cls, point_num, threshold_num,
                          mode).val).val

\* result[i][P(c)][sub_param_names[c]] exists and holds the processed slice
\* of column c for gait i
HoldsColumn(b, i, c) ==
    /\ Opened(b, c) # {}
    /\ ParamOf(b, c) \in DOMAIN attrs[b].gaits[i]
    /\ SubParam(b, c).s \in DOMAIN attrs[b].gaits[i][ParamOf(b, c)]
    /\ \E mode \in Modes :
         attrs[b].gaits[i][ParamOf(b, c)][SubParam(b, c).s] = SeriesOf(b, i, c, mode)

\* C10 as stated: after a successful batch_retrieve, every column with a
\* sub-parameter name has its entry in every gait, for every header layout,
\* repeated names included.
C10_EveryColumnStored ==
    \A b \in DOMAIN attrs :
      attrs[b].some
      => \A c \in Extracted(b) : \A i \in 1..Len(attrs[b].gaits) : HoldsColumn(b, i, c)

\* column c of batch b keeps its entry: its parameter name is not opened
\* again further right, and no column further right under the same opening
\* carries the same sub-parameter name
Surviving(b, c) ==
    /\ \A o \in Opened(b, NumCols(df) - 1) :
         o > OpenCol(b, c) => ParamName(Param(b, o).s).val # ParamOf(b, c)
    /\ \A c2 \in Extracted(b) :
         (c2 > c /\ OpenCol(b, c2) = OpenCol(b, c)) => SubParam(b, c2).s # SubParam(b, c).s

\* C10 amended: after a successful batch_retrieve, every column with a
\* sub-parameter name whose parameter name is not opened again further right,
\* and whose sub-parameter name does not recur further right under the same
\* opening, has its entry in every gait, holding its processed slice.
C10_LastColumnStored ==
    \A b \in DOMAIN attrs :
      attrs[b].some
      => \A c \in Extracted(b) :
           Surviving(b, c) => \A i \in 1..Len(attrs[b].gaits) : HoldsColumn(b, i, c)

\* C10 witness: a batch extracted for two gaits from two columns of distinct
\* names, with series that are not empty
C10_Witness ==
    /\ pc = "done"
    /\ \E b \in DOMAIN attrs :
         /\ attrs[b].some
         /\ Len(attrs[b].gaits) >= 2
         /\ Cardinality(Extracted(b)) >= 2
         /\ \A c \in Extracted(b) :
              /\ Surviving(b, c)
              /\ \A i \in 1..Len(attrs[b].gaits) :
                   /\ HoldsColumn(b, i, c)
                   /\ Len(attrs[b].gaits[i][ParamOf(b, c)][SubParam(b, c).s]) >= 1


\* the positions of ':' in a text
Colons(chunks) == {i \in 1..Len(chunks) : chunks[i] = ":"}
FirstColon(chunks) == CHOOSE i \in Colons(chunks) : \A j \in Colons(chunks) : i <= j
\* the whole text after the first ':'
AfterFirstColon(chunks) == SubSeq(chunks, FirstColon(chunks) + 1, Len(chunks))
\* the text before the first ':' of a text, the whole text when it has none
UpToColon(chunks) ==
    IF Colons(chunks) = {} THEN chunks ELSE SubSeq(chunks, 1, FirstColon(chunks) - 1)

\* a batch retrieved with a result, for at least one gait
Retrieved(b) == b \in DOMAIN attrs /\ attrs[b].some /\ Len(attrs[b].gaits) >= 1

\* the param_names cells of batch b that hold a ':'
Compound(b) == {o \in Opened(b, NumCols(df) - 1) : Colons(Param(b, o).s) # {}}

\* C11 as stated: the name opened by a param_names cell holding a ':' is the
\* whole text after its first ':', also when the cell holds more than one ':'.
C11_NameIsRemainder ==
    \A b \in DOMAIN attrs :
      Retrieved(b)
      => \A o \in Compound(b) : \A i \in 1..Len(attrs[b].gaits) :
           AfterFirstColon(Param(b, o).s) \in DOMAIN attrs[b].gaits[i]

\* C11 amended: the name opened by a param_names cell holding a ':' is the
\* text between its first ':' and its next ':' (or its end); the text before
\* the first ':' and the text from the second ':' on are discarded.
C11_NameIsSecondSegment ==
    \A b \in DOMAIN attrs :
      Retrieved(b)
      => \A o \in Compound(b) : \A i \in 1..Len(attrs[b].gaits) :
           UpToColon(AfterFirstColon(Param(b, o).s)) \in DOMAIN attrs[b].gaits[i]

\* C11 witness: a retrieved batch whose header holds a cell with two ':' and
\* a cell with one, each with its name opened in every gait
C11_Witness ==
    \E b \in DOMAIN attrs :
      /\ Retrieved(b)
      /\ \E o \in Compound(b) : Cardinality(Colons(Param(b, o).s)) >= 2
      /\ \E o \in Compound(b) : Cardinality(Colons(Param(b, o).s)) = 1
      /\ \A o \in Compound(b) : \A i \in 1..Len(attrs[b].gaits) :
           UpToColon(AfterFirstColon(Param(b, o).s)) \in DOMAIN attrs[b].gaits[i]


\* both times of gait i map to rows of batch b: time2row returns a row
RowsValid(b, i) ==
    /\ StartRow(b, i).exc = "" /\ ~StartRow(b, i).none
    /\ EndRow(b, i).exc = "" /\ ~EndRow(b, i).none

\* the series stored for gait i and column c of batch b
Stored(b, i, c) == attrs[b].gaits[i][ParamOf(b, c)][SubParam(b, c).s]

\* the cells of column c in the rows lo..hi of the grid, in row order
CellsOf(lo, hi, c) == [j \in 1..(hi - lo + 1) |-> At(df, lo + j - 1, c)]

LastRow == NumRows(df) - 1
Min(a, b) == IF a <= b THEN a ELSE b

\* the series of batch b that are the raw slices: the base class returns the
\* data as extracted, and the entry of the column is not overwritten
RawKept(b) ==
    IF Retrieved(b) /\ cls = "ViconData" THEN {c \in Extracted(b) : Surviving(b, c)} ELSE {}

\* the scenario: the "Model Outputs" cell in row 10, frame_start 0,
\* output_rate 100, the one gait (0, 1), in a grid that holds the gait's rows
InScenario(b) ==
    /\ b = ModelOutputs
    /\ df_first_match_row(df, b).val = 10
    /\ FrameStart(b) = 0 /\ OutputRate(b) = 100
    /\ timestamps = << <<Int2Cell(0), Int2Cell(1)>> >>
    /\ LastRow >= RowStart(b) + 100

\* C12 as stated: for a gait whose times both map to rows, the raw series of a
\* column is the cells of the rows time2row(start)..time2row(end), ends
\* included, so it has time2row(end) - time2row(start) + 1 samples; in the
\* scenario these are the rows 10..110, 101 samples.
C12_RowsOfScenario ==
    \A b \in DOMAIN attrs : \A c \in RawKept(b) : \A i \in 1..Len(attrs[b].gaits) :
      RowsValid(b, i)
      => /\ Len(Stored(b, i, c)) = EndRow(b, i).row - StartRow(b, i).row + 1
         /\ \A j \in 1..Len(Stored(b, i, c)) :
              /\ StartRow(b, i).row + j - 1 <= LastRow
              /\ Stored(b, i, c)[j] = At(df, StartRow(b, i).row + j - 1, c)
         /\ InScenario(b) => Stored(b, i, c) = CellsOf(10, 110, c)

\* C12 amended: the raw series is the cells of the rows time2row(start)..
\* time2row(end) that the grid holds, ends included and in row order: it has
\* time2row(end) - time2row(start) + 1 samples when start <= end and the end
\* row is in the grid, is cut at the last row of the grid otherwise, and is
\* empty when end < start; in the scenario row_start is 15 and these are the
\* rows 15..115, 101 samples.
C12_RowsInGrid ==
    \A b \in DOMAIN attrs : \A c \in RawKept(b) : \A i \in 1..Len(attrs[b].gaits) :
      RowsValid(b, i)
      => /\ Stored(b, i, c) = CellsOf(StartRow(b, i).row, Min(EndRow(b, i).row, LastRow), c)
         /\ (StartRow(b, i).row <= EndRow(b, i).row /\ EndRow(b, i).row <= LastRow)
              => Len(Stored(b, i, c)) = EndRow(b, i).row - StartRow(b, i).row + 1
         /\ InScenario(b)
              => Len(Stored(b, i, c)) = 101 /\ Stored(b, i, c) = CellsOf(15, 115, c)

\* C12 witness: the scenario retrieved, with 101 samples in a column
C12_Witness ==
    /\ pc = "done"
    /\ ModelOutputs \in DOMAIN attrs
    /\ InScenario(ModelOutputs)
    /\ RowsValid(ModelOutputs, 1)
    /\ \E c \in RawKept(ModelOutputs) : Len(Stored(ModelOutputs, 1, c)) = 101


\* round(a/b) for b > 0: the nearest integer, a half going to the even one
Round(a, b) ==
    LET q == a \div b
        r == a % b
    IN IF 2 * r < b THEN q
       ELSE IF 2 * r > b THEN q + 1
       ELSE IF q % 2 = 0 THEN q ELSE q + 1

\* row_start + round(t * output_rate) - frame_start, for a number t
RoundedRow(b, t) ==
    LET frame == RatMul(t, Int2Cell(OutputRate(b)))
    IN RowStart(b) + Round(frame.n, frame.d) - FrameStart(b)

\* gait i of batch b has numbers for times, and their rounded rows are rows
\* of the batch's data
RoundedValid(b, i) ==
    /\ IsNum(timestamps[i][1]) /\ IsNum(timestamps[i][2])
    /\ OutputRate(b) > 0
    /\ RoundedRow(b, timestamps[i][1]) >= RowStart(b)
    /\ RoundedRow(b, timestamps[i][2]) >= RowStart(b)

\* C13: time2row(t) is row_start + round(t * output_rate) - frame_start
\* whenever that is at least row_start: the rows extracted for a gait are the
\* rows of its rounded frames.
C13_RowIsRounded ==
    \A b \in DOMAIN attrs : \A c \in RawKept(b) : \A i \in 1..Len(attrs[b].gaits) :
      RoundedValid(b, i)
      => /\ RowsValid(b, i)
         /\ StartRow(b, i).row = RoundedRow(b, timestamps[i][1])
         /\ EndRow(b, i).row = RoundedRow(b, timestamps[i][2])
         /\ Stored(b, i, c) = CellsOf(RoundedRow(b, timestamps[i][1]),
                                      Min(RoundedRow(b, timestamps[i][2]), LastRow), c)

-----------------------------------------------------------------------------
(* Statements about ViconData_interp.data_process, for a direct call *)

\* the call was one of ViconData_interp.data_process, and it returned
InterpReturned == pc = "returned" /\ cls = "ViconData_interp"

\* the values of the input that are not NaN, in order, and how many they are
Cleaned == SelectSeq(data, LAMBDA c : c.k # "nan")
ValidCount == Cardinality({i \in 1..Len(data) : data[i].k # "nan"})

PassedThrough == ValidCount < threshold_num \/ ValidCount < 2

C7_EndpointsForEveryPointNum ==
    (InterpReturned /\ ~PassedThrough /\ point_num >= 1)
    => /\ Len(processed) >= 1
       /\ processed[1] = Cleaned[1]
       /\ processed[Len(processed)] = Cleaned[Len(Cleaned)]

\* C7 amended: whenever a cleaned series holding no infinity is resampled
\* with point_num >= 2, the output begins with cleaned[0] and ends with
\* cleaned[-1].
C7_EndpointsPreserved ==
    (/\ InterpReturned /\ ~PassedThrough
     /\ point_num >= 2
     /\ \A i \in 1..Len(data) : ~IsInf(data[i]))
    => /\ Len(processed) = point_num
       /\ processed[1] = Cleaned[1]
       /\ processed[point_num] = Cleaned[Len(Cleaned)]

\* C7 witness: a finite series with different end values resampled to another
\* length
C7_Witness ==
    /\ InterpReturned /\ ~PassedThrough
    /\ point_num >= 2
    /\ point_num # ValidCount
    /\ \A i \in 1..Len(data) : ~IsInf(data[i])
    /\ Cleaned[1] # Cleaned[Len(Cleaned)]
    /\ processed[1] # processed[point_num]

\* C8 as stated: every non-finite value, NaN or infinite, is removed before
\* resampling, the others keeping their order, and no NaN is in the output.
C8_NonFiniteRemoved ==
    InterpReturned
    => /\ PassedThrough => processed = SelectSeq(data, IsNum)
       /\ \A j \in 1..Len(processed) : ~IsNaN(processed[j])

\* C8 amended: every NaN is removed (infinities are kept), the others keeping
\* their order; no NaN is in a passed-through output, nor in a resampled one
\* when the input holds no infinity.
C8_NaNRemoved ==
    InterpReturned
    => /\ PassedThrough =>
            /\ processed = Cleaned
            /\ \A j \in 1..Len(processed) : ~IsNaN(processed[j])
       /\ (\A i \in 1..Len(data) : ~IsInf(data[i]))
            => \A j \in 1..Len(processed) : IsNum(processed[j])

\* C8 witness: an input with NaNs among its numbers was resampled, and came
\* out as numbers only
C8_Witness ==
    /\ InterpReturned
    /\ ~PassedThrough
    /\ \E i \in 1..Len(data) : IsNaN(data[i])
    /\ \A i \in 1..Len(data) : ~IsInf(data[i])
    /\ Len(processed) >= 2
    /\ \A j \in 1..Len(processed) : IsNum(processed[j])

\* C9: when the series holds a value that is no number, this is reported,
\* the value is skipped and the rest of the series is cleaned and, if long
\* enough, resampled.
C9_BadValueSkipped ==
    (pc \in {"returned", "raised"} /\ cls = "ViconData_interp"
     /\ \E i \in 1..Len(data) : IsStr(data[i]))
    => /\ raised = NoExc
       /\ \E i \in 1..Len(printed) : printed[i] = PrintData
       /\ LET good == Cardinality({i \in 1..Len(data) : ~IsStr(data[i]) /\ ~IsNaN(data[i])})
          IN Len(processed) = IF good < threshold_num \/ good < 2 THEN good ELSE point_num

-----------------------------------------------------------------------------
(* Statements about export_gait_attrs *)

\* the condition blocks written for subject s in its saved workbook: one
\* worksheet per param, holding every condition of the subject
Written(s) ==
    /\ s <= Len(saved)
    /\ saved[s].name = subjects[s].name
    /\ Len(saved[s].sheets) = Len(ExportParams)
    /\ \A q \in 1..Len(ExportParams) :
         LET conds == saved[s].sheets[q].conds
         IN /\ Len(conds) = Len(subjects[s].conds)
            /\ \A k \in 1..Len(conds) :
                 /\ conds[k].condition = subjects[s].conds[k].condition
                 /\ conds[k].gaits = GaitBlocks(subjects[s].conds[k].data.gaits,
                                                ExportParams[q])

\* C14: export_gait_attrs completes for every mapping produced by load, also
\* when the batch of some condition is the absent result of an aborted
\* extraction: no exception escapes, and once it has ended every subject's
\* workbook is saved with all its conditions, the absent one without gait data.
C14_ExportCompletes ==
    /\ raised.in # "export_gait_attrs"
    /\ pc \in {"done", "raised"} => \A s \in 1..Len(subjects) : Written(s)

====
